---- MODULE Spec2Model ----
(***************************************************************************)
(* Model of the personal-finance-api report engine: the in-memory          *)
(* transaction store (internal/repositories), the transaction service and  *)
(* the report service (internal/services).                                 *)
(*                                                                         *)
(* Instants (Go time.Time) are records [day, tick]: day counts the days    *)
(* since 0001-01-01 UTC and tick counts sub-second steps within the day,   *)
(* TicksPerSecond of them to the second, so that an instant need not be a  *)
(* whole second.  Amounts (float64 in the source) are integers: every      *)
(* value used is exactly representable and sums stay far below 2^53.       *)
(***************************************************************************)
EXTENDS Integers, Sequences, FiniteSets, TLC

VARIABLES
    transactions,   \* MemoryTransactionRepository.transactions, in slice order
    nextID,         \* MemoryTransactionRepository.nextID
    now,            \* what time.Now() returns
    storeDown,      \* the TransactionRepository answers its calls with an error
    last,           \* the last service call: arguments, results, store calls
    input,          \* the transactions argument of buildMonthlyReport
    cfg,            \* the *config.Config that main got from config.Load()
    assigned,       \* the IDs the successful Create calls gave out, in call order
    slack,          \* the slots of the store's backing array past len(transactions)
    held,           \* the reports callers were given and still hold
    mutex,          \* MemoryTransactionRepository.mutex, a sync.RWMutex
    procs           \* the goroutines calling the repository: call, position, locals

vars ==
    <<transactions, nextID, now, storeDown, last, input, cfg, assigned, slack, held,
      mutex, procs>>

\* the lock and the goroutines, followed in SpecConc only: elsewhere each
\* call runs alone, from Lock to Unlock in one step
concVars == <<mutex, procs>>

\* the memory behind the slices, followed in SpecAlias only
memVars == <<slack, held>>

(***************************************************************************)
(* Bounds of the model.                                                    *)
(***************************************************************************)
\* sub-second resolution of the modelled clock (Go: 10^9 ns per second)
TicksPerSecond == 2
\* longest argument list handed to buildMonthlyReport
MaxLen == 3
\* most transactions the store holds at once
MaxTx == 2
\* Create is not called once nextID has passed this value
MaxID == 3

\* reports held by callers at a time
MaxHeld == 1
\* goroutines calling the repository at the same time
NumProcs == 2

TicksPerDay == 86400 * TicksPerSecond

(***************************************************************************)
(* time.Time as the services use it.                                       *)
(***************************************************************************)
IsLeap(y) == y % 4 = 0 /\ (y % 100 # 0 \/ y % 400 = 0)

\* days from 0001-01-01 to January 1 of year y
DaysBeforeYear(y) ==
    365 * (y - 1) + ((y - 1) \div 4) - ((y - 1) \div 100) + ((y - 1) \div 400)

\* days before the first of month m in a non-leap year
DaysBefore == <<0, 31, 59, 90, 120, 151, 181, 212, 243, 273, 304, 334, 365>>

\* time.Date(year, month, day, 0, 0, 0, 0, time.UTC) plus tick: month and day
\* out of range are normalised, as Go does (month 13 is January of year + 1)
GoDate(year, month, day, tick) ==
    LET m0 == month - 1
        y  == year + (m0 \div 12)
        m  == (m0 % 12) + 1
        d  == DaysBeforeYear(y) + DaysBefore[m]
              + (IF IsLeap(y) /\ m >= 3 THEN 1 ELSE 0) + (day - 1)
    IN  [day |-> d, tick |-> tick]

\* t.Add(d) for a duration of dticks ticks (negative to go back)
TimeAdd(t, dticks) ==
    LET total == t.tick + dticks
    IN  [day |-> t.day + (total \div TicksPerDay), tick |-> total % TicksPerDay]

Second == TicksPerSecond

TimeBefore(a, b) == a.day < b.day \/ (a.day = b.day /\ a.tick < b.tick)

TimeAfter(a, b) == a.day > b.day \/ (a.day = b.day /\ a.tick > b.tick)

\* the year and the day within it of day number d, by Go's absDate: 400-year,
\* 100-year, 4-year cycles and then single years
absDate(d) ==
    LET n400 == d \div 146097
        r400 == d % 146097
        c100 == r400 \div 36524
        n100 == IF c100 > 3 THEN 3 ELSE c100
        r100 == r400 - 36524 * n100
        n4   == r100 \div 1461
        r4   == r100 % 1461
        c1   == r4 \div 365
        n1   == IF c1 > 3 THEN 3 ELSE c1
    IN  [year |-> 400 * n400 + 100 * n100 + 4 * n4 + n1 + 1,
         yday |-> r4 - 365 * n1]

\* t.Year()
YearOf(t) == absDate(t.day).year

\* days before the first of month m in year y
daysBeforeIn(y, m) == DaysBefore[m] + (IF IsLeap(y) /\ m >= 3 THEN 1 ELSE 0)

\* t.Month()
MonthOf(t) ==
    LET a == absDate(t.day)
    IN  CHOOSE m \in 1 .. 12 :
            /\ daysBeforeIn(a.year, m) <= a.yday
            /\ m = 12 \/ a.yday < daysBeforeIn(a.year, m + 1)

\* t.Day()
DayOf(t) ==
    LET a == absDate(t.day)
    IN  a.yday - daysBeforeIn(a.year, MonthOf(t)) + 1

\* t.AddDate(years, months, days)
AddDate(t, years, months, days) ==
    GoDate(YearOf(t) + years, MonthOf(t) + months, DayOf(t) + days, t.tick)

(***************************************************************************)
(* Go maps (map[string]float64, map[string]CategoryTotal) are functions    *)
(* whose domain is the key set; reading a missing key gives zero.          *)
(***************************************************************************)
EmptyMap == [k \in {} |-> 0]

MapGet(m, k) == IF k \in DOMAIN m THEN m[k] ELSE 0

MapPut(m, k, v) == [x \in (DOMAIN m) \cup {k} |-> IF x = k THEN v ELSE m[x]]

TransactionTypeExpense == "expense"

TransactionTypeIncome == "income"

CurrencyARS == "ARS"

(***************************************************************************)
(* reportService.buildMonthlyReport                                        *)
(***************************************************************************)
\* the accumulators before the loop
EmptyTotals ==
    [totalIncome |-> EmptyMap, totalExpense |-> EmptyMap,
     categoryBreakdown |-> EmptyMap, incomeCount |-> 0, expenseCount |-> 0]

\* addTotals with the expense branch adding to the income map
addTotalsIntoIncome(acc, t) ==
    IF t.Type = TransactionTypeIncome
    THEN [acc EXCEPT
            !.totalIncome = MapPut(@, t.Currency, MapGet(@, t.Currency) + t.Amount),
            !.incomeCount = @ + 1]
    ELSE [acc EXCEPT
            !.totalIncome = MapPut(@, t.Currency, MapGet(@, t.Currency) + t.Amount),
            !.expenseCount = @ + 1]

\* addTotals with an explicit expense test: any other kind is skipped
addTotalsKnownKinds(acc, t) ==
    IF t.Type = TransactionTypeIncome
    THEN [acc EXCEPT
            !.totalIncome = MapPut(@, t.Currency, MapGet(@, t.Currency) + t.Amount),
            !.incomeCount = @ + 1]
    ELSE IF t.Type = TransactionTypeExpense
    THEN [acc EXCEPT
            !.totalExpense = MapPut(@, t.Currency, MapGet(@, t.Currency) + t.Amount),
            !.expenseCount = @ + 1]
    ELSE acc

\* "Calculate totals by currency": income goes to totalIncome, everything
\* else (the else branch) to totalExpense
addTotals(acc, t) ==
    IF t.Type = TransactionTypeIncome
    THEN [acc EXCEPT
            !.totalIncome = MapPut(@, t.Currency, MapGet(@, t.Currency) + t.Amount),
            !.incomeCount = @ + 1]
    ELSE [acc EXCEPT
            !.totalExpense = MapPut(@, t.Currency, MapGet(@, t.Currency) + t.Amount),
            !.expenseCount = @ + 1]

\* addCategory that assigns (=) where the code adds (+=) to an existing category
addCategoryAssign(cb, t) ==
    IF t.Category \in DOMAIN cb
    THEN LET category == cb[t.Category]
         IN  MapPut(cb, t.Category,
                    [Count  |-> category.Count + 1,
                     Totals |-> MapPut(category.Totals, t.Currency, t.Amount)])
    ELSE MapPut(cb, t.Category,
                [Count |-> 1, Totals |-> MapPut(EmptyMap, t.Currency, t.Amount)])

\* addCategory that starts the category's totals afresh when a currency is
\* new to the category
addCategoryResetOnNewCurrency(cb, t) ==
    IF t.Category \in DOMAIN cb /\ t.Currency \in DOMAIN cb[t.Category].Totals
    THEN MapPut(cb, t.Category,
                [Count  |-> cb[t.Category].Count + 1,
                 Totals |-> MapPut(cb[t.Category].Totals, t.Currency,
                                   cb[t.Category].Totals[t.Currency] + t.Amount)])
    ELSE MapPut(cb, t.Category,
                [Count  |-> IF t.Category \in DOMAIN cb
                            THEN cb[t.Category].Count + 1 ELSE 1,
                 Totals |-> MapPut(EmptyMap, t.Currency, t.Amount)])

\* "Category breakdown": one CategoryTotal {Count, Totals} per category
addCategory(cb, t) ==
    IF t.Category \in DOMAIN cb
    THEN LET category == cb[t.Category]
             zeroed   == IF MapGet(category.Totals, t.Currency) = 0
                         THEN MapPut(category.Totals, t.Currency, 0)
                         ELSE category.Totals
         IN  MapPut(cb, t.Category,
                    [Count  |-> category.Count + 1,
                     Totals |-> MapPut(zeroed, t.Currency,
                                       MapGet(zeroed, t.Currency) + t.Amount)])
    ELSE MapPut(cb, t.Category,
                [Count |-> 1, Totals |-> MapPut(EmptyMap, t.Currency, t.Amount)])

\* the loop body with the category breakdown kept for expenses only
processTransactionExpenseCategories(acc, t) ==
    IF t.Type = TransactionTypeIncome
    THEN addTotals(acc, t)
    ELSE [addTotals(acc, t) EXCEPT !.categoryBreakdown = addCategory(@, t)]

\* one iteration of the loop over the transactions
processTransaction(acc, t) ==
    [addTotals(acc, t) EXCEPT !.categoryBreakdown = addCategory(@, t)]

\* the loop, in input order
RECURSIVE accumulate(_)
accumulate(txs) ==
    IF txs = <<>>
    THEN EmptyTotals
    ELSE processTransaction(accumulate(SubSeq(txs, 1, Len(txs) - 1)), txs[Len(txs)])

\* getAllCurrencies without its second loop
getAllCurrenciesIncomeOnly(totalIncome, totalExpense) == DOMAIN totalIncome

\* reportService.getAllCurrencies: the keys of either totals map
getAllCurrencies(totalIncome, totalExpense) ==
    (DOMAIN totalIncome) \cup (DOMAIN totalExpense)

\* the balance computed for a fixed list of currencies, present or not
calculateBalanceKnownCurrencies(totalIncome, totalExpense) ==
    [c \in {"ARS", "USD", "EUR"} |->
        MapGet(totalIncome, c) - MapGet(totalExpense, c)]

\* "Calculate balance by currency"
calculateBalance(totalIncome, totalExpense) ==
    [c \in getAllCurrencies(totalIncome, totalExpense) |->
        MapGet(totalIncome, c) - MapGet(totalExpense, c)]

\* time.Month(month).String() for 1..12
MonthNames ==
    <<"January", "February", "March", "April", "May", "June", "July",
      "August", "September", "October", "November", "December">>

\* the report with its transactions listed last first
buildMonthlyReportReversed(year, month, txs) ==
    LET acc == accumulate(txs)
    IN  [Month        |-> MonthNames[month],
         Year         |-> year,
         TotalIncome  |-> acc.totalIncome,
         TotalExpense |-> acc.totalExpense,
         Balance      |-> calculateBalance(acc.totalIncome, acc.totalExpense),
         Transactions |-> [i \in 1 .. Len(txs) |-> txs[Len(txs) + 1 - i]],
         Summary      |-> [TransactionCount  |-> Len(txs),
                           IncomeCount       |-> acc.incomeCount,
                           ExpenseCount      |-> acc.expenseCount,
                           CategoryBreakdown |-> acc.categoryBreakdown]]

buildMonthlyReport(year, month, txs) ==
    LET acc == accumulate(txs)
    IN  [Month        |-> MonthNames[month],
         Year         |-> year,
         TotalIncome  |-> acc.totalIncome,
         TotalExpense |-> acc.totalExpense,
         Balance      |-> calculateBalance(acc.totalIncome, acc.totalExpense),
         Transactions |-> txs,
         Summary      |-> [TransactionCount  |-> Len(txs),
                           IncomeCount       |-> acc.incomeCount,
                           ExpenseCount      |-> acc.expenseCount,
                           CategoryBreakdown |-> acc.categoryBreakdown]]

(***************************************************************************)
(* MemoryTransactionRepository: the slice `transactions` and `nextID`.     *)
(* Every method runs under the repository mutex, so each is one step.      *)
(***************************************************************************)
NoError == "nil"

ErrNotFound == "transaction not found"

ErrStore == "database error"

\* Create that keeps the ID its argument carries and numbers only a zero ID
repoCreateKeepID(store, id, t, clock) ==
    Append(store, [t EXCEPT !.ID = IF t.ID # 0 THEN t.ID ELSE id,
                            !.CreatedAt = clock, !.UpdatedAt = clock])

\* MemoryTransactionRepository.Create: the stored copy gets the next ID and
\* both timestamps
repoCreate(store, id, t, clock) ==
    Append(store, [t EXCEPT !.ID = id, !.CreatedAt = clock, !.UpdatedAt = clock])

\* the condition of GetByDateRange's loop
inDateRange(t, startDate, endDate) ==
    /\ TimeAfter(t.Date, TimeAdd(startDate, -Second))
    /\ TimeBefore(t.Date, TimeAdd(endDate, Second))

\* MemoryTransactionRepository.GetByDateRange: a fresh slice, in store order
GetByDateRange(store, startDate, endDate) ==
    SelectSeq(store, LAMBDA t : inDateRange(t, startDate, endDate))

\* position of the first stored transaction with this ID, 0 when there is none
indexOf(store, id) ==
    IF \E i \in 1 .. Len(store) : store[i].ID = id
    THEN CHOOSE i \in 1 .. Len(store) :
            /\ store[i].ID = id
            /\ \A j \in 1 .. (i - 1) : store[j].ID # id
    ELSE 0

\* Delete that cuts the slice at the transaction found
repoDeleteTruncate(store, id) ==
    LET i == indexOf(store, id)
    IN  IF i = 0 THEN store ELSE SubSeq(store, 1, i - 1)

\* MemoryTransactionRepository.Delete: append(transactions[:i], transactions[i+1:]...)
repoDelete(store, id) ==
    LET i == indexOf(store, id)
    IN  IF i = 0 THEN store
        ELSE SubSeq(store, 1, i - 1) \o SubSeq(store, i + 1, Len(store))

\* MemoryTransactionRepository.GetByID: a pointer to a copy of the first stored
\* transaction with this ID, or nil and the error
getByID(store, id) ==
    LET i == indexOf(store, id)
    IN  IF i = 0 THEN [ret |-> <<>>, err |-> ErrNotFound]
        ELSE [ret |-> <<store[i]>>, err |-> NoError]

\* Update that stores its argument when no transaction has the ID
repoUpdateUpsert(store, t, clock) ==
    IF \E i \in 1 .. Len(store) : store[i].ID = t.ID
    THEN [i \in 1 .. Len(store) |->
            IF store[i].ID = t.ID /\ \A j \in 1 .. (i - 1) : store[j].ID # t.ID
            THEN [t EXCEPT !.UpdatedAt = clock] ELSE store[i]]
    ELSE Append(store, [t EXCEPT !.UpdatedAt = clock])

\* MemoryTransactionRepository.Update: the first stored transaction with the
\* argument's ID is overwritten by the argument, UpdatedAt set to the clock
repoUpdate(store, t, clock) ==
    LET i == indexOf(store, t.ID)
    IN  IF i = 0 THEN store
        ELSE [store EXCEPT ![i] = [t EXCEPT !.UpdatedAt = clock]]

\* matchesFilters with the ToDate test taken against FromDate's side
matchesFiltersToBefore(t, filters) ==
    /\ filters.Type = "" \/ t.Type = filters.Type
    /\ filters.Category = "" \/ t.Category = filters.Category
    /\ filters.Currency = "" \/ t.Currency = filters.Currency
    /\ filters.FromDate = <<>> \/ ~TimeBefore(t.Date, filters.FromDate[1])
    /\ filters.ToDate = <<>> \/ ~TimeBefore(t.Date, filters.ToDate[1])

\* MemoryTransactionRepository.matchesFilters; a nil *time.Time is <<>>
matchesFilters(t, filters) ==
    IF filters.Type # "" /\ t.Type # filters.Type THEN FALSE
    ELSE IF filters.Category # "" /\ t.Category # filters.Category THEN FALSE
    ELSE IF filters.Currency # "" /\ t.Currency # filters.Currency THEN FALSE
    ELSE IF filters.FromDate # <<>> /\ TimeBefore(t.Date, filters.FromDate[1])
    THEN FALSE
    ELSE IF filters.ToDate # <<>> /\ TimeAfter(t.Date, filters.ToDate[1])
    THEN FALSE
    ELSE TRUE

\* MemoryTransactionRepository.GetByFilters: a fresh slice, in store order
GetByFilters(store, filters) ==
    SelectSeq(store, LAMBDA t : matchesFilters(t, filters))

(***************************************************************************)
(* sync.RWMutex and the goroutines                                         *)
(***************************************************************************)
Unlocked == [writer |-> FALSE, readers |-> 0]

\* a write lock granted while readers are inside
canLockDespiteReaders(m) == ~m.writer

\* a write lock granted whoever holds the mutex
canLockAlways(m) == m.readers >= 0

\* Lock returns once no writer and no reader holds the mutex
canLock(m) == ~m.writer /\ m.readers = 0

\* RLock returns once no writer holds the mutex
canRLock(m) == ~m.writer

Goroutines == 1 .. NumProcs

\* a goroutine: the repository method it is in (op) and its argument, where
\* it is in the method (pc), the method's locals (i, n, result, err), and
\* what an observer of the call has seen: the store when the call began
\* (start) and every value the store has had since (seen)
Idle ==
    [op |-> "none", arg |-> <<>>, pc |-> "idle", i |-> 0, n |-> 0,
     result |-> <<>>, err |-> "nil", start |-> <<>>, seen |-> {}]

(***************************************************************************)
(* config                                                                  *)
(***************************************************************************)
\* config.getEnvOrDefault: value is os.Getenv(key), "" when the key is unset
getEnvOrDefault(value, defaultValue) ==
    IF value # "" THEN value ELSE defaultValue

\* config.Load, of which the model keeps DefaultCurrency; env is the value of
\* DEFAULT_CURRENCY in the environment
Load(env) == [DefaultCurrency |-> getEnvOrDefault(env, "ARS")]

(***************************************************************************)
(* transactionService                                                      *)
(***************************************************************************)
\* transactionService.validateCreateRequest
validateCreateRequest(req) ==
    IF req.Type # TransactionTypeExpense /\ req.Type # TransactionTypeIncome
    THEN "type must be 'expense' or 'income'"
    ELSE IF req.Amount <= 0 THEN "amount must be positive"
    ELSE IF req.Description = "" THEN "description is required"
    ELSE IF req.Category = "" THEN "category is required"
    ELSE NoError

\* days of month m of year y (Go's daysIn, which time.Parse checks the day against)
daysIn(y, m) ==
    IF m = 2 /\ IsLeap(y) THEN 29 ELSE DaysBefore[m + 1] - DaysBefore[m]

\* time.Parse("2006-01-02", s) succeeds; s is given by its three fields <<y, m, d>>
dateParses(s) ==
    /\ s[2] \in 1 .. 12
    /\ s[3] \in 1 .. daysIn(s[1], s[2])

\* the instant time.Parse returns: midnight UTC of that day
parseDate(s) == GoDate(s[1], s[2], s[3], 0)

ErrDateFormat == "invalid date format, use YYYY-MM-DD"

ErrInvalidID == "invalid transaction ID"

(***************************************************************************)
(* reportService.GetMonthlyReport                                          *)
(***************************************************************************)
ErrInvalidYear == "invalid year"

ErrInvalidMonth == "month must be between 1 and 12"

\* the year check with >= for >
validateReportRequestStrict(year, month, currentYear) ==
    IF year < 1900 \/ year >= currentYear + 10 THEN "invalid year"
    ELSE IF month < 1 \/ month > 12 THEN "month must be between 1 and 12"
    ELSE NoError

\* the two checks with the month taken first
validateReportRequestMonthFirst(year, month, currentYear) ==
    IF month < 1 \/ month > 12 THEN "month must be between 1 and 12"
    ELSE IF year < 1900 \/ year > currentYear + 10 THEN "invalid year"
    ELSE "nil"

\* the year and month checks, in the order of the code
validateReportRequest(year, month, currentYear) ==
    IF year < 1900 \/ year > currentYear + 10 THEN ErrInvalidYear
    ELSE IF month < 1 \/ month > 12 THEN ErrInvalidMonth
    ELSE NoError

\* "Calculate date range for the month"
monthStart(year, month) == GoDate(year, month, 1, 0)

\* the end of the month taken as 23:59:59 of "day 31"
monthEndDay31(year, month) == TimeAdd(GoDate(year, month, 32, 0), -Second)

monthEnd(year, month) == TimeAdd(AddDate(monthStart(year, month), 0, 1, 0), -Second)

\* s.repo.GetByDateRange as the service sees it through the
\* TransactionRepository interface: the result or an error
queryStore(store, down, startDate, endDate) ==
    [start |-> startDate,
     end   |-> endDate,
     ret   |-> IF down THEN <<>> ELSE GetByDateRange(store, startDate, endDate),
     err   |-> IF down THEN ErrStore ELSE NoError]

\* what a service call leaves behind: its arguments (year and month, or in
\* req the request of a call that stored something), the clock it read, the
\* error and value it returned and the store calls it issued
Outcome(op, year, month, clock, err, report, calls, tx) ==
    [op |-> op, year |-> year, month |-> month, at |-> clock, err |-> err,
     report |-> report, rangeCalls |-> calls, tx |-> tx, req |-> <<>>]

NoOutcome == Outcome("none", 0, 0, [day |-> 0, tick |-> 0], NoError, <<>>, <<>>, <<>>)

\* GetMonthlyReport that asks the store a second time when the first query
\* fails
getMonthlyReportRetry(year, month, clock, store, down) ==
    LET verr == validateReportRequest(year, month, YearOf(clock))
        call == queryStore(store, down, monthStart(year, month), monthEnd(year, month))
    IN  IF verr # NoError
        THEN Outcome("GetMonthlyReport", year, month, clock, verr, <<>>, <<>>, <<>>)
        ELSE IF call.err # NoError
        THEN Outcome("GetMonthlyReport", year, month, clock, call.err, <<>>,
                     <<call, call>>, <<>>)
        ELSE Outcome("GetMonthlyReport", year, month, clock, NoError,
                     <<buildMonthlyReport(year, month, call.ret)>>, <<call>>, <<>>)

\* GetMonthlyReport that fetches the transactions before it validates
getMonthlyReportQueryFirst(year, month, clock, store, down) ==
    LET verr == validateReportRequest(year, month, YearOf(clock))
        call == queryStore(store, down, monthStart(year, month), monthEnd(year, month))
    IN  IF verr # NoError
        THEN Outcome("GetMonthlyReport", year, month, clock, verr, <<>>, <<call>>, <<>>)
        ELSE IF call.err # NoError
        THEN Outcome("GetMonthlyReport", year, month, clock, call.err, <<>>, <<call>>, <<>>)
        ELSE Outcome("GetMonthlyReport", year, month, clock, NoError,
                     <<buildMonthlyReport(year, month, call.ret)>>, <<call>>, <<>>)

\* GetMonthlyReport that builds the report before it looks at the store's error
getMonthlyReportBuildAnyway(year, month, clock, store, down) ==
    LET verr == validateReportRequest(year, month, YearOf(clock))
    IN  IF verr # NoError
        THEN Outcome("GetMonthlyReport", year, month, clock, verr, <<>>, <<>>, <<>>)
        ELSE LET call == queryStore(store, down, monthStart(year, month),
                                    monthEnd(year, month))
             IN  Outcome("GetMonthlyReport", year, month, clock, call.err,
                         <<buildMonthlyReport(year, month, call.ret)>>, <<call>>, <<>>)

\* reportService.GetMonthlyReport; a nil *MonthlyReport is the empty sequence
getMonthlyReport(year, month, clock, store, down) ==
    LET verr == validateReportRequest(year, month, YearOf(clock))
    IN  IF verr # NoError
        THEN Outcome("GetMonthlyReport", year, month, clock, verr, <<>>, <<>>, <<>>)
        ELSE LET call == queryStore(store, down, monthStart(year, month),
                                    monthEnd(year, month))
             IN  IF call.err # NoError
                 THEN Outcome("GetMonthlyReport", year, month, clock, call.err,
                              <<>>, <<call>>, <<>>)
                 ELSE Outcome("GetMonthlyReport", year, month, clock, NoError,
                              <<buildMonthlyReport(year, month, call.ret)>>,
                              <<call>>, <<>>)

\* the zero time.Time of a struct field not yet set
ZeroTime == [day |-> 0, tick |-> 0]

\* &models.Transaction{Type: ..., Amount: ..., ...} as CreateTransaction builds it
NewTransaction(type, amount, currency, description, category, date) ==
    [ID |-> 0, Type |-> type, Amount |-> amount, Currency |-> currency,
     Description |-> description, Category |-> category, Date |-> date,
     CreatedAt |-> ZeroTime, UpdatedAt |-> ZeroTime]

\* CreateTransaction that hands the transaction to the store before it
\* validates the request
createTransactionStoreFirst(req, clock, store, id, down) ==
    LET verr   == validateCreateRequest(req)
        date   == IF req.Date # <<>> /\ dateParses(req.Date)
                  THEN parseDate(req.Date) ELSE clock
        t      == NewTransaction(req.Type, req.Amount,
                                 IF req.Currency = "" THEN "ARS" ELSE req.Currency,
                                 req.Description, req.Category, date)
        stored == repoCreate(store, id, t, clock)
        result(err, tx) ==
            [transactions |-> stored, nextID |-> id + 1,
             last |-> [Outcome("CreateTransaction", 0, 0, clock, err, <<>>, <<>>, tx)
                          EXCEPT !.req = IF err = "nil" THEN <<req>> ELSE <<>>]]
    IN  IF down
        THEN [transactions |-> store, nextID |-> id,
              last |-> Outcome("CreateTransaction", 0, 0, clock, "database error",
                               <<>>, <<>>, <<>>)]
        ELSE IF verr # "nil" THEN result(verr, <<>>)
        ELSE IF req.Date # <<>> /\ ~dateParses(req.Date)
        THEN result("invalid date format, use YYYY-MM-DD", <<>>)
        ELSE result("nil", <<stored[Len(stored)]>>)

\* transactionService.CreateTransaction: the store afterwards and the outcome
createTransaction(req, clock, store, id, down) ==
    LET verr   == validateCreateRequest(req)
        failed(err) ==
            [transactions |-> store, nextID |-> id,
             last |-> Outcome("CreateTransaction", 0, 0, clock, err, <<>>, <<>>, <<>>)]
    IN  IF verr # NoError THEN failed(verr)
        ELSE IF req.Date # <<>> /\ ~dateParses(req.Date) THEN failed(ErrDateFormat)
        ELSE IF down THEN failed(ErrStore)
        ELSE LET date     == IF req.Date # <<>> THEN parseDate(req.Date) ELSE clock
                 currency == IF req.Currency = "" THEN CurrencyARS ELSE req.Currency
                 t        == NewTransaction(req.Type, req.Amount, currency,
                                            req.Description, req.Category, date)
                 stored   == repoCreate(store, id, t, clock)
             IN  [transactions |-> stored, nextID |-> id + 1,
                  last |-> [Outcome("CreateTransaction", 0, 0, clock, NoError,
                                    <<>>, <<>>, <<stored[Len(stored)]>>)
                               EXCEPT !.req = <<req>>]]

\* transactionService.DeleteTransaction: the store afterwards and the outcome
deleteTransaction(id, clock, store, down) ==
    LET result(err, after) ==
            [transactions |-> after,
             last |-> Outcome("DeleteTransaction", 0, 0, clock, err, <<>>, <<>>, <<>>)]
    IN  IF id <= 0 THEN result(ErrInvalidID, store)
        ELSE IF down THEN result(ErrStore, store)
        ELSE IF indexOf(store, id) = 0 THEN result(ErrNotFound, store)
        ELSE result(NoError, repoDelete(store, id))

\* the update validation without its amount check
validateUpdateRequestNoAmount(req) ==
    IF /\ req.Type # <<>>
       /\ req.Type[1] # "expense"
       /\ req.Type[1] # "income"
    THEN "type must be 'expense' or 'income'"
    ELSE IF req.Description # <<>> /\ req.Description[1] = ""
    THEN "description cannot be empty"
    ELSE IF req.Category # <<>> /\ req.Category[1] = ""
    THEN "category cannot be empty"
    ELSE "nil"

\* transactionService.validateUpdateRequest; a nil pointer field is <<>>, a
\* set one <<value>>
validateUpdateRequest(req) ==
    IF /\ req.Type # <<>>
       /\ req.Type[1] # TransactionTypeExpense
       /\ req.Type[1] # TransactionTypeIncome
    THEN "type must be 'expense' or 'income'"
    ELSE IF req.Amount # <<>> /\ req.Amount[1] <= 0 THEN "amount must be positive"
    ELSE IF req.Description # <<>> /\ req.Description[1] = ""
    THEN "description cannot be empty"
    ELSE IF req.Category # <<>> /\ req.Category[1] = ""
    THEN "category cannot be empty"
    ELSE NoError

\* the merge as a replacement: a field the request leaves unset is emptied
mergeUpdateZeroUnset(existing, req) ==
    [existing EXCEPT
        !.Type        = IF req.Type # <<>> THEN req.Type[1] ELSE "",
        !.Amount      = IF req.Amount # <<>> THEN req.Amount[1] ELSE 0,
        !.Currency    = IF req.Currency # <<>> THEN req.Currency[1] ELSE "",
        !.Description = IF req.Description # <<>> THEN req.Description[1] ELSE "",
        !.Category    = IF req.Category # <<>> THEN req.Category[1] ELSE "",
        !.Date        = IF req.Date # <<>> THEN parseDate(req.Date[1]) ELSE @]

\* "Update only provided fields"; the date is parsed by the caller
mergeUpdate(existing, req) ==
    [existing EXCEPT
        !.Type        = IF req.Type # <<>> THEN req.Type[1] ELSE @,
        !.Amount      = IF req.Amount # <<>> THEN req.Amount[1] ELSE @,
        !.Currency    = IF req.Currency # <<>> THEN req.Currency[1] ELSE @,
        !.Description = IF req.Description # <<>> THEN req.Description[1] ELSE @,
        !.Category    = IF req.Category # <<>> THEN req.Category[1] ELSE @,
        !.Date        = IF req.Date # <<>> THEN parseDate(req.Date[1]) ELSE @]

\* transactionService.UpdateTransaction: the store afterwards and the outcome
updateTransaction(id, req, clock, store, down) ==
    LET result(err, after, tx) ==
            [transactions |-> after,
             last |-> Outcome("UpdateTransaction", 0, 0, clock, err, <<>>, <<>>, tx)]
        found == getByID(store, id)
    IN  IF id <= 0 THEN result(ErrInvalidID, store, <<>>)
        ELSE IF down THEN result(ErrStore, store, <<>>)
        ELSE IF found.err # NoError THEN result(found.err, store, <<>>)
        ELSE IF validateUpdateRequest(req) # NoError
        THEN result(validateUpdateRequest(req), store, <<>>)
        ELSE IF req.Date # <<>> /\ ~dateParses(req.Date[1])
        THEN result(ErrDateFormat, store, <<>>)
        ELSE LET updated == mergeUpdate(found.ret[1], req)
                 after   == repoUpdate(store, updated, clock)
             IN  [transactions |-> after,
                  last |-> [Outcome("UpdateTransaction", 0, 0, clock, NoError,
                                    <<>>, <<>>, <<after[indexOf(after, id)]>>)
                               EXCEPT !.req = <<req>>]]

\* reportService.GetCurrentMonthReport: GetMonthlyReport of the clock's year
\* and month
getCurrentMonthReport(clock, store, down) ==
    [getMonthlyReport(YearOf(clock), MonthOf(clock), clock, store, down)
        EXCEPT !.op = "GetCurrentMonthReport"]

(***************************************************************************)
(* Inputs of the model.                                                    *)
(***************************************************************************)
\* 2024-01-31, one tick before midnight: not a whole second
LateJanuary == GoDate(2024, 1, 31, TicksPerDay - 1)

MidFebruary == GoDate(2024, 2, 15, TicksPerDay \div 2)

EarlyMarch2025 == GoDate(2025, 3, 1, 0)

\* what time.Now() can return: the running server, and the wider set used to
\* exercise the year check
SysClock == {LateJanuary, MidFebruary}

WideClock == {LateJanuary, MidFebruary, EarlyMarch2025}

\* the "date" field of a request: absent, two days, and a day that does not exist
ReqDates == {<<>>, <<2024, 1, 31>>, <<2024, 2, 1>>, <<2024, 2, 30>>}

CreateRequests ==
    [Type : {"income", "expense", "transfer"}, Amount : {0, 1},
     Currency : {"", "USD"}, Description : {"", "rent"},
     Category : {"", "food"}, Date : ReqDates]

\* the pointer fields of an UpdateTransactionRequest: nil, or a value
Unset == <<>>

UpdateFields ==
    [Type : {Unset, <<"income">>, <<"transfer">>}, Amount : {Unset, <<0>>, <<2>>},
     Currency : {Unset, <<"">>}, Description : {Unset, <<"">>},
     Category : {Unset, <<"">>},
     Date : {Unset, <<<<2024, 2, 1>>>>, <<<<2024, 2, 30>>>>}]

\* the fields a request sets
setFields(req) == {f \in DOMAIN req : req[f] # Unset}

\* the update requests: no field, one field, or type and amount together
UpdateRequests ==
    {req \in UpdateFields :
        \/ Cardinality(setFields(req)) <= 1
        \/ setFields(req) = {"Type", "Amount"}}

\* the create requests of the transaction service's specification: dated by
\* the clock, or with a day that does not exist
ServiceRequests ==
    [Type : {"expense", "transfer"}, Amount : {0, 1}, Currency : {"", "USD"},
     Description : {"", "rent"}, Category : {"", "food"},
     Date : {<<>>, <<2024, 2, 30>>}]

\* the arguments of the repository's Create and Update: transactions that
\* differ in kind, category, currency and date, carrying any ID
FirstOfFebruary == GoDate(2024, 2, 1, 0)

RepoTransactions ==
    {NewTransaction("income", 1, "ARS", "pay", "food", LateJanuary),
     NewTransaction("expense", 1, "ARS", "rent", "food", FirstOfFebruary),
     NewTransaction("income", 1, "USD", "pay", "work", FirstOfFebruary),
     NewTransaction("income", 1, "USD", "pay", "food", MidFebruary)}

RepoArguments ==
    {[t EXCEPT !.ID = id] : t \in RepoTransactions, id \in 0 .. MaxID}

\* models.TransactionFilters
RepoFilters ==
    [Type : {"", "income"}, Category : {"", "food"}, Currency : {"", "USD"},
     FromDate : {<<>>, <<FirstOfFebruary>>}, ToDate : {<<>>, <<FirstOfFebruary>>}]

\* the (year, month) pairs requested of the running server
SysYears == {1899, 2024}

SysMonths == {1, 2, 13}

\* the (year, month) pairs of the range and validation checks
WideYears == {1899, 1900, 2023, 2024, 2034, 2035, 2036}

WideMonths == 0 .. 13

\* arguments of buildMonthlyReport: any kind string, a few currencies,
\* categories and amounts
BuildKinds == {"income", "expense", "transfer"}

BuildCurrencies == {"ARS", "USD"}

BuildCategories == {"food", "work"}

BuildAmounts == {1, 2}

BuildTransactions ==
    { [NewTransaction(k, a, c, "d", g, MidFebruary) EXCEPT !.ID = 1] :
        k \in BuildKinds, a \in BuildAmounts, c \in BuildCurrencies,
        g \in BuildCategories }

BuildInputs == UNION { [1 .. n -> BuildTransactions] : n \in 0 .. MaxLen }

\* stores the range checks run against
SampleStore ==
    repoCreate(
        repoCreate(<<>>, 1,
                   NewTransaction("income", 1, "ARS", "pay", "work",
                                  GoDate(2024, 2, 29, 0)), LateJanuary),
        2, NewTransaction("expense", 1, "USD", "rent", "home",
                          GoDate(2035, 12, 31, 0)), LateJanuary)

RangeStores == {<<>>, SampleStore}

(***************************************************************************)
(* The running server: the services over the in-memory store.              *)
(***************************************************************************)
Init ==
    /\ transactions = <<>>
    /\ nextID = 1
    /\ now \in SysClock
    /\ storeDown = FALSE
    /\ last = NoOutcome
    /\ input = <<>>
    /\ cfg = Load("")
    /\ assigned = <<>>
    /\ slack = <<>>
    /\ held = <<>>
    /\ mutex = Unlocked
    /\ procs = [p \in Goroutines |-> Idle]

CreateTransaction(requests) ==
    /\ nextID <= MaxID
    /\ Len(transactions) < MaxTx
    /\ \E req \in requests :
         LET r == createTransaction(req, now, transactions, nextID, storeDown)
         IN  /\ transactions' = r.transactions
             /\ nextID' = r.nextID
             /\ last' = r.last
             /\ assigned' = IF r.last.err = NoError
                            THEN Append(assigned, r.last.tx[1].ID)
                            ELSE assigned
    /\ UNCHANGED <<now, storeDown, input, cfg>>
    /\ UNCHANGED memVars
    /\ UNCHANGED concVars

DeleteTransaction ==
    /\ \E id \in 0 .. MaxID :
         LET r == deleteTransaction(id, now, transactions, storeDown)
         IN  /\ transactions' = r.transactions
             /\ last' = r.last
    /\ UNCHANGED <<nextID, now, storeDown, input, cfg, assigned>>
    /\ UNCHANGED memVars
    /\ UNCHANGED concVars

UpdateTransaction ==
    /\ \E id \in 0 .. MaxID, req \in UpdateRequests :
         LET r == updateTransaction(id, req, now, transactions, storeDown)
         IN  /\ transactions' = r.transactions
             /\ last' = r.last
    /\ UNCHANGED <<nextID, now, storeDown, input, cfg, assigned>>
    /\ UNCHANGED memVars
    /\ UNCHANGED concVars

GetCurrentMonthReport ==
    /\ last' = getCurrentMonthReport(now, transactions, storeDown)
    /\ UNCHANGED <<transactions, nextID, now, storeDown, input, cfg, assigned>>
    /\ UNCHANGED memVars
    /\ UNCHANGED concVars

GetMonthlyReport(years, months) ==
    /\ \E year \in years, month \in months :
         last' = getMonthlyReport(year, month, now, transactions, storeDown)
    /\ UNCHANGED <<transactions, nextID, now, storeDown, input, cfg, assigned>>
    /\ UNCHANGED memVars
    /\ UNCHANGED concVars

\* the host clock moves on
Tick(clock) ==
    /\ \E t \in clock : TimeAfter(t, now) /\ now' = t
    /\ UNCHANGED <<transactions, nextID, storeDown, last, input, cfg, assigned>>
    /\ UNCHANGED memVars
    /\ UNCHANGED concVars

Next ==
    \/ CreateTransaction(CreateRequests)
    \/ DeleteTransaction
    \/ GetMonthlyReport(SysYears, SysMonths)
    \/ GetCurrentMonthReport
    \/ Tick(SysClock)

Spec == Init /\ [][Next]_vars

(***************************************************************************)
(* The transaction service over the in-memory store, started with          *)
(* DEFAULT_CURRENCY unset or set.                                          *)
(***************************************************************************)
\* the values of DEFAULT_CURRENCY in the server's environment ("" is unset)
Environments == {"", "USD"}

InitService ==
    /\ transactions = <<>>
    /\ nextID = 1
    /\ now = MidFebruary
    /\ storeDown = FALSE
    /\ last = NoOutcome
    /\ input = <<>>
    /\ cfg \in {Load(env) : env \in Environments}
    /\ assigned = <<>>
    /\ slack = <<>>
    /\ held = <<>>
    /\ mutex = Unlocked
    /\ procs = [p \in Goroutines |-> Idle]

NextService ==
    \/ CreateTransaction(ServiceRequests)
    \/ UpdateTransaction
    \/ DeleteTransaction

SpecService == InitService /\ [][NextService]_vars

(***************************************************************************)
(* The in-memory repository called directly, one call at a time.           *)
(***************************************************************************)
\* what a repository call leaves behind: its argument, its error, the
\* transactions it returned
RepoOutcome(op, arg, err, ret) ==
    [Outcome(op, 0, 0, now, err, <<>>, <<>>, ret) EXCEPT !.req = <<arg>>]

InitRepo ==
    /\ transactions = <<>>
    /\ nextID = 1
    /\ now = MidFebruary
    /\ storeDown = FALSE
    /\ last = NoOutcome
    /\ input = <<>>
    /\ cfg = Load("")
    /\ assigned = <<>>
    /\ slack = <<>>
    /\ held = <<>>
    /\ mutex = Unlocked
    /\ procs = [p \in Goroutines |-> Idle]

RepoCreate ==
    /\ nextID <= MaxID
    /\ Len(transactions) < MaxTx
    /\ \E t \in RepoArguments :
         LET stored == repoCreate(transactions, nextID, t, now)
         IN  /\ transactions' = stored
             /\ nextID' = nextID + 1
             /\ assigned' = Append(assigned, stored[Len(stored)].ID)
             /\ last' = RepoOutcome("Create", t, NoError, <<stored[Len(stored)]>>)
    /\ UNCHANGED <<now, storeDown, input, cfg>>
    /\ UNCHANGED memVars
    /\ UNCHANGED concVars

RepoUpdate ==
    /\ \E t \in RepoArguments :
         /\ transactions' = repoUpdate(transactions, t, now)
         /\ last' = RepoOutcome("Update", t,
                                IF indexOf(transactions, t.ID) = 0
                                THEN ErrNotFound ELSE NoError, <<>>)
    /\ UNCHANGED <<nextID, now, storeDown, input, cfg, assigned>>
    /\ UNCHANGED memVars
    /\ UNCHANGED concVars

RepoDelete ==
    /\ \E id \in 0 .. MaxID :
         /\ transactions' = repoDelete(transactions, id)
         /\ last' = RepoOutcome("Delete", id,
                                IF indexOf(transactions, id) = 0
                                THEN ErrNotFound ELSE NoError, <<>>)
    /\ UNCHANGED <<nextID, now, storeDown, input, cfg, assigned>>
    /\ UNCHANGED memVars
    /\ UNCHANGED concVars

RepoGetByID ==
    /\ \E id \in 0 .. MaxID :
         last' = RepoOutcome("GetByID", id, getByID(transactions, id).err,
                             getByID(transactions, id).ret)
    /\ UNCHANGED <<transactions, nextID, now, storeDown, input, cfg, assigned>>
    /\ UNCHANGED memVars
    /\ UNCHANGED concVars

RepoGetByFilters ==
    /\ \E filters \in RepoFilters :
         last' = RepoOutcome("GetByFilters", filters, NoError,
                             GetByFilters(transactions, filters))
    /\ UNCHANGED <<transactions, nextID, now, storeDown, input, cfg, assigned>>
    /\ UNCHANGED memVars
    /\ UNCHANGED concVars

NextRepo ==
    \/ RepoCreate
    \/ RepoUpdate
    \/ RepoDelete
    \/ RepoGetByID
    \/ RepoGetByFilters

SpecRepo == InitRepo /\ [][NextRepo]_vars

(***************************************************************************)
(* The store and the reports as Go slices over backing arrays: the store's *)
(* array is transactions followed by slack, and a slice held by a caller   *)
(* is either an array of its own or a window of the store's array.         *)
(***************************************************************************)
\* a slice with a backing array nobody else refers to
OwnSlice(elems) == [array |-> "own", elems |-> elems, len |-> Len(elems)]

\* the first n slots of the store's backing array
SharedSlice(n) == [array |-> "store", elems |-> <<>>, len |-> n]

\* what a slice holds, given the store's array
Deref(slice, store, slots) ==
    IF slice.array = "own" THEN slice.elems
    ELSE SubSeq(store \o slots, 1, slice.len)

\* a query that hands out the store's own slice
rangeSliceShared(store, startDate, endDate) == SharedSlice(Len(store))

\* GetByDateRange's result: "var result []models.Transaction", grown by
\* append with a copy of each matching transaction
rangeSlice(store, startDate, endDate) ==
    OwnSlice(GetByDateRange(store, startDate, endDate))

\* the *MonthlyReport a caller gets: buildMonthlyReport's value, its
\* Transactions field being the slice it was given
reportOver(year, month, slice, store, slots) ==
    [buildMonthlyReport(year, month, Deref(slice, store, slots))
        EXCEPT !.Transactions = slice]

\* a held report read now
ReportValue(report, store, slots) ==
    [report EXCEPT !.Transactions = Deref(@, store, slots)]

\* append's capacity for one more element when the array is full
growCap(cap) == IF cap = 0 THEN 1 ELSE 2 * cap

\* the zero models.Transaction of a fresh array slot
ZeroTransaction == NewTransaction("", 0, "", "", "", ZeroTime)

\* the old array of the store stays with the slices that were windows of it
Detached(reports, store, slots) ==
    [k \in 1 .. Len(reports) |->
        [reports[k] EXCEPT
            !.Transactions = OwnSlice(Deref(@, store, slots))]]

AliasTransactions ==
    {NewTransaction("expense", 1, "ARS", "rent", "food", FirstOfFebruary),
     NewTransaction("income", 1, "USD", "pay", "work", FirstOfFebruary)}

InitAlias ==
    /\ transactions = <<>>
    /\ nextID = 1
    /\ now = MidFebruary
    /\ storeDown = FALSE
    /\ last = NoOutcome
    /\ input = <<>>
    /\ cfg = Load("")
    /\ assigned = <<>>
    /\ slack = <<>>
    /\ held = <<>>
    /\ mutex = Unlocked
    /\ procs = [p \in Goroutines |-> Idle]

\* Create: append writes into the array when it has room, else into a new one
CreateInPlace ==
    /\ nextID <= MaxID
    /\ Len(transactions) < MaxTx
    /\ \E t \in AliasTransactions :
         /\ transactions' = repoCreate(transactions, nextID, t, now)
         /\ nextID' = nextID + 1
         /\ assigned' = Append(assigned, nextID)
         /\ last' = Outcome("Create", 0, 0, now, NoError, <<>>, <<>>, <<>>)
    /\ IF slack # <<>>
       THEN /\ slack' = Tail(slack)
            /\ held' = held
       ELSE /\ slack' = [k \in 1 .. (growCap(Len(transactions))
                                        - Len(transactions) - 1) |-> ZeroTransaction]
            /\ held' = Detached(held, transactions, slack)
    /\ UNCHANGED <<now, storeDown, input, cfg>>
    /\ UNCHANGED concVars

\* Update: r.transactions[i] = *transaction
UpdateInPlace ==
    /\ \E t \in AliasTransactions, id \in 1 .. MaxID :
         /\ indexOf(transactions, id) # 0
         /\ transactions' = repoUpdate(transactions, [t EXCEPT !.ID = id], now)
         /\ last' = Outcome("Update", 0, 0, now, NoError, <<>>, <<>>, <<>>)
    /\ UNCHANGED <<nextID, now, storeDown, input, cfg, assigned, slack, held>>
    /\ UNCHANGED concVars

\* Delete: append(transactions[:i], transactions[i+1:]...) moves the tail one
\* slot down in the same array; the slot of the old last element keeps it
DeleteInPlace ==
    /\ \E id \in 1 .. MaxID :
         /\ indexOf(transactions, id) # 0
         /\ transactions' = repoDelete(transactions, id)
         /\ slack' = <<transactions[Len(transactions)]>> \o slack
         /\ last' = Outcome("Delete", 0, 0, now, NoError, <<>>, <<>>, <<>>)
    /\ UNCHANGED <<nextID, now, storeDown, input, cfg, assigned, held>>
    /\ UNCHANGED concVars

\* GetMonthlyReport(2024, 2), whose caller keeps the report
HoldMonthlyReport ==
    /\ Len(held) < MaxHeld
    /\ LET slice == rangeSlice(transactions, monthStart(2024, 2), monthEnd(2024, 2))
       IN  held' = Append(held, reportOver(2024, 2, slice, transactions, slack))
    /\ last' = Outcome("GetMonthlyReport", 2024, 2, now, NoError, <<>>, <<>>, <<>>)
    /\ UNCHANGED <<transactions, nextID, now, storeDown, input, cfg, assigned, slack>>
    /\ UNCHANGED concVars

NextAlias ==
    \/ CreateInPlace
    \/ UpdateInPlace
    \/ DeleteInPlace
    \/ HoldMonthlyReport

SpecAlias == InitAlias /\ [][NextAlias]_vars

(***************************************************************************)
(* The in-memory repository called by several goroutines at once, each     *)
(* method taken one statement at a time.                                   *)
(***************************************************************************)
\* the transaction the goroutines create, dated in February 2024, and the
\* one they update to, dated outside it
Created == NewTransaction("income", 1, "ARS", "pay", "work", FirstOfFebruary)

UpdatedTo == NewTransaction("expense", 2, "USD", "trip", "fun", EarlyMarch2025)

\* the calls a goroutine may make
CreateCalls == {[op |-> "Create", arg |-> Created]}

\* the Create calls of goroutines that do nothing else: either transaction,
\* carrying no ID or one
FirstCalls ==
    {[op |-> "Create", arg |-> [t EXCEPT !.ID = id]] :
        t \in {Created, UpdatedTo}, id \in {0, 1}}

WriteCalls ==
    {[op |-> "Update", arg |-> [UpdatedTo EXCEPT !.ID = id]] : id \in 1 .. MaxTx}
        \cup {[op |-> "Delete", arg |-> id] : id \in 1 .. MaxTx}

ReadCalls ==
    {[op |-> "GetByDateRange", arg |-> <<monthStart(2024, 2), monthEnd(2024, 2)>>]}

\* the goroutine's state on entering a method
Entered(call, store) ==
    [op |-> call.op, arg |-> call.arg,
     pc |-> IF call.op = "GetByDateRange" THEN "RLock" ELSE "Lock",
     i |-> 0, n |-> 0, result |-> <<>>, err |-> NoError,
     start |-> store, seen |-> {store}]

\* every call in progress has seen the store take the value it has now
Observed(ps, store) ==
    [q \in Goroutines |->
        IF ps[q].pc \in {"idle", "done"} THEN ps[q]
        ELSE [ps[q] EXCEPT !.seen = @ \cup {store}]]

InitConc ==
    /\ transactions = <<>>
    /\ nextID = 1
    /\ now = MidFebruary
    /\ storeDown = FALSE
    /\ last = NoOutcome
    /\ input = <<>>
    /\ cfg = Load("")
    /\ assigned = <<>>
    /\ slack = <<>>
    /\ held = <<>>
    /\ mutex = Unlocked
    /\ procs = [p \in Goroutines |-> Idle]

\* a goroutine that is in no call enters Create, Update, Delete or
\* GetByDateRange
Call(p) ==
    /\ procs[p].pc \in {"idle", "done"}
    /\ \E call \in CreateCalls \cup WriteCalls \cup ReadCalls :
         /\ call.op = "Create" => (nextID <= MaxID /\ Len(transactions) < MaxTx)
         /\ procs' = [procs EXCEPT ![p] = Entered(call, transactions)]
    /\ UNCHANGED <<transactions, nextID, now, storeDown, last, input, cfg, assigned,
                   mutex>>
    /\ UNCHANGED memVars

\* a goroutine that has made no call yet enters Create
CallCreate(p) ==
    /\ procs[p].pc = "idle"
    /\ \E call \in FirstCalls :
         procs' = [procs EXCEPT ![p] = Entered(call, transactions)]
    /\ UNCHANGED <<transactions, nextID, now, storeDown, last, input, cfg, assigned,
                   mutex>>
    /\ UNCHANGED memVars

\* r.mutex.Lock()
Lock(p) ==
    /\ procs[p].pc = "Lock"
    /\ canLock(mutex)
    /\ mutex' = [mutex EXCEPT !.writer = TRUE]
    /\ procs' = [procs EXCEPT ![p].pc =
                    IF procs[p].op = "Create" THEN "setID" ELSE "write"]
    /\ UNCHANGED <<transactions, nextID, now, storeDown, last, input, cfg, assigned>>
    /\ UNCHANGED memVars

\* Create: transaction.ID = r.nextID, and the two timestamps
CreateSetID(p) ==
    /\ procs[p].pc = "setID"
    /\ procs' = [procs EXCEPT
                    ![p].arg = [@ EXCEPT !.ID = nextID, !.CreatedAt = now,
                                         !.UpdatedAt = now],
                    ![p].pc = "append"]
    /\ UNCHANGED <<transactions, nextID, now, storeDown, last, input, cfg, assigned,
                   mutex>>
    /\ UNCHANGED memVars

\* Create: r.transactions = append(r.transactions, *transaction)
CreateAppend(p) ==
    /\ procs[p].pc = "append"
    /\ transactions' = Append(transactions, procs[p].arg)
    /\ procs' = Observed([procs EXCEPT ![p].pc = "incr"], transactions')
    /\ UNCHANGED <<nextID, now, storeDown, last, input, cfg, assigned, mutex>>
    /\ UNCHANGED memVars

\* Create: r.nextID++, return nil; the caller's transaction carries the ID
CreateIncr(p) ==
    /\ procs[p].pc = "incr"
    /\ nextID' = nextID + 1
    /\ assigned' = Append(assigned, procs[p].arg.ID)
    /\ procs' = [procs EXCEPT ![p].result = <<procs[p].arg>>, ![p].pc = "Unlock"]
    /\ UNCHANGED <<transactions, now, storeDown, last, input, cfg, mutex>>
    /\ UNCHANGED memVars

\* Update and Delete: the search and the write, or the not-found error
Write(p) ==
    /\ procs[p].pc = "write"
    /\ LET id == IF procs[p].op = "Update" THEN procs[p].arg.ID ELSE procs[p].arg
       IN  /\ transactions' =
                  IF procs[p].op = "Update"
                  THEN repoUpdate(transactions, procs[p].arg, now)
                  ELSE repoDelete(transactions, id)
           /\ procs' = Observed(
                  [procs EXCEPT
                      ![p].err = IF indexOf(transactions, id) = 0
                                 THEN ErrNotFound ELSE NoError,
                      ![p].pc = "Unlock"], transactions')
    /\ UNCHANGED <<nextID, now, storeDown, last, input, cfg, assigned, mutex>>
    /\ UNCHANGED memVars

\* the deferred r.mutex.Unlock(), and the return
Unlock(p) ==
    /\ procs[p].pc = "Unlock"
    /\ mutex' = [mutex EXCEPT !.writer = FALSE]
    /\ procs' = [procs EXCEPT ![p].pc = "done"]
    /\ UNCHANGED <<transactions, nextID, now, storeDown, last, input, cfg, assigned>>
    /\ UNCHANGED memVars

\* r.mutex.RLock(), and the start of "for _, transaction := range
\* r.transactions", which reads the slice's length once
RLock(p) ==
    /\ procs[p].pc = "RLock"
    /\ canRLock(mutex)
    /\ mutex' = [mutex EXCEPT !.readers = @ + 1]
    /\ procs' = [procs EXCEPT ![p].pc = "range", ![p].i = 0,
                              ![p].n = Len(transactions)]
    /\ UNCHANGED <<transactions, nextID, now, storeDown, last, input, cfg, assigned>>
    /\ UNCHANGED memVars

\* GetByDateRange: one iteration of the loop, on the element it has come to
RangeStep(p) ==
    /\ procs[p].pc = "range"
    /\ procs[p].i < procs[p].n
    /\ procs' = [procs EXCEPT
                    ![p].i = @ + 1,
                    ![p].result =
                        IF /\ procs[p].i < Len(transactions)
                           /\ inDateRange(transactions[procs[p].i + 1],
                                          procs[p].arg[1], procs[p].arg[2])
                        THEN Append(@, transactions[procs[p].i + 1])
                        ELSE @]
    /\ UNCHANGED <<transactions, nextID, now, storeDown, last, input, cfg, assigned,
                   mutex>>
    /\ UNCHANGED memVars

\* GetByDateRange: the loop is over; the deferred r.mutex.RUnlock(), and the
\* return of result
RUnlock(p) ==
    /\ procs[p].pc = "range"
    /\ procs[p].i >= procs[p].n
    /\ mutex' = [mutex EXCEPT !.readers = @ - 1]
    /\ procs' = [procs EXCEPT ![p].pc = "done"]
    /\ UNCHANGED <<transactions, nextID, now, storeDown, last, input, cfg, assigned>>
    /\ UNCHANGED memVars

NextConc ==
    \/ \E p \in Goroutines : Call(p)
    \/ \E p \in Goroutines : Lock(p)
    \/ \E p \in Goroutines : CreateSetID(p)
    \/ \E p \in Goroutines : CreateAppend(p)
    \/ \E p \in Goroutines : CreateIncr(p)
    \/ \E p \in Goroutines : Write(p)
    \/ \E p \in Goroutines : Unlock(p)
    \/ \E p \in Goroutines : RLock(p)
    \/ \E p \in Goroutines : RangeStep(p)
    \/ \E p \in Goroutines : RUnlock(p)

SpecConc == InitConc /\ [][NextConc]_vars

(***************************************************************************)
(* NumProcs goroutines that each call Create once on a new repository.     *)
(***************************************************************************)
NextCreates ==
    \/ \E p \in Goroutines : CallCreate(p)
    \/ \E p \in Goroutines : Lock(p)
    \/ \E p \in Goroutines : CreateSetID(p)
    \/ \E p \in Goroutines : CreateAppend(p)
    \/ \E p \in Goroutines : CreateIncr(p)
    \/ \E p \in Goroutines : Unlock(p)

SpecCreates == InitConc /\ [][NextCreates]_vars

(***************************************************************************)
(* The report service against any TransactionRepository, one that may      *)
(* fail included, over the wide range of years and months.                 *)
(***************************************************************************)
InitRange ==
    /\ transactions \in RangeStores
    /\ nextID = Len(transactions) + 1
    /\ now \in WideClock
    /\ storeDown \in BOOLEAN
    /\ last = NoOutcome
    /\ input = <<>>
    /\ cfg = Load("")
    /\ assigned = [i \in 1 .. Len(transactions) |-> transactions[i].ID]
    /\ slack = <<>>
    /\ held = <<>>
    /\ mutex = Unlocked
    /\ procs = [p \in Goroutines |-> Idle]

\* the repository starts or stops answering
StoreFails ==
    /\ ~storeDown
    /\ storeDown' = TRUE
    /\ UNCHANGED <<transactions, nextID, now, last, input, cfg, assigned>>
    /\ UNCHANGED memVars
    /\ UNCHANGED concVars

StoreRecovers ==
    /\ storeDown
    /\ storeDown' = FALSE
    /\ UNCHANGED <<transactions, nextID, now, last, input, cfg, assigned>>
    /\ UNCHANGED memVars
    /\ UNCHANGED concVars

NextRange ==
    \/ GetMonthlyReport(WideYears, WideMonths)
    \/ Tick(WideClock)
    \/ StoreFails
    \/ StoreRecovers

SpecRange == InitRange /\ [][NextRange]_vars

(***************************************************************************)
(* CreateTransaction against any TransactionRepository, one whose Create   *)
(* may fail included.                                                      *)
(***************************************************************************)
InitCreate ==
    /\ transactions = <<>>
    /\ nextID = 1
    /\ now \in SysClock
    /\ storeDown \in BOOLEAN
    /\ last = NoOutcome
    /\ input = <<>>
    /\ cfg = Load("")
    /\ assigned = <<>>
    /\ slack = <<>>
    /\ held = <<>>
    /\ mutex = Unlocked
    /\ procs = [p \in Goroutines |-> Idle]

NextCreate ==
    \/ CreateTransaction(CreateRequests)
    \/ StoreFails
    \/ StoreRecovers

SpecCreate == InitCreate /\ [][NextCreate]_vars

(***************************************************************************)
(* UpdateTransaction on a store filled in January and updated in February. *)
(***************************************************************************)
InitUpdate ==
    /\ transactions = SampleStore
    /\ nextID = Len(SampleStore) + 1
    /\ now = MidFebruary
    /\ storeDown = FALSE
    /\ last = NoOutcome
    /\ input = <<>>
    /\ cfg = Load("")
    /\ assigned = [i \in 1 .. Len(SampleStore) |-> SampleStore[i].ID]
    /\ slack = <<>>
    /\ held = <<>>
    /\ mutex = Unlocked
    /\ procs = [p \in Goroutines |-> Idle]

NextUpdate == UpdateTransaction

SpecUpdate == InitUpdate /\ [][NextUpdate]_vars

(***************************************************************************)
(* NumProcs goroutines that each call the transaction service's            *)
(* UpdateTransaction once on the sample store: the call is the             *)
(* repository's GetByID, the merge on the caller's own copy, and the       *)
(* repository's Update, and the mutex is free between the two.             *)
(***************************************************************************)
\* a request that sets nothing
NoFields ==
    [Type |-> Unset, Amount |-> Unset, Currency |-> Unset, Description |-> Unset,
     Category |-> Unset, Date |-> Unset]

\* the requests of the concurrent calls: one field each, or none, or an
\* amount the validation rejects
ConcurrentRequests ==
    {NoFields,
     [NoFields EXCEPT !.Amount = <<2>>],
     [NoFields EXCEPT !.Amount = <<0>>],
     [NoFields EXCEPT !.Category = <<"fun">>],
     [NoFields EXCEPT !.Description = <<"trip">>]}

\* the calls: any of the requests on an ID that is invalid, stored, or
\* not stored
UpdateCalls ==
    {[op |-> "UpdateTransaction", arg |-> [ID |-> id, req |-> req]] :
        id \in 0 .. MaxID, req \in ConcurrentRequests}

\* UpdateTransaction up to its GetByID: the ID check
CallUpdate(p) ==
    /\ procs[p].pc = "idle"
    /\ \E call \in UpdateCalls :
         procs' = [procs EXCEPT ![p] =
                      [Idle EXCEPT !.op = call.op, !.arg = call.arg,
                                   !.err = IF call.arg.ID <= 0
                                           THEN ErrInvalidID ELSE NoError,
                                   !.pc = IF call.arg.ID <= 0
                                          THEN "done" ELSE "GetByID"]]
    /\ UNCHANGED <<transactions, nextID, now, storeDown, last, input, cfg, assigned,
                   mutex>>
    /\ UNCHANGED memVars

\* s.repo.GetByID(id) under the read lock, which returns a copy of the
\* stored transaction, and what UpdateTransaction does with the copy before
\* it calls the repository again: the validation, the merge of the provided
\* fields, the parse of the date
UpdateGetByID(p) ==
    /\ procs[p].pc = "GetByID"
    /\ canRLock(mutex)
    /\ LET found == getByID(transactions, procs[p].arg.ID)
           req   == procs[p].arg.req
           err   == IF found.err # NoError THEN found.err
                    ELSE IF validateUpdateRequest(req) # NoError
                    THEN validateUpdateRequest(req)
                    ELSE IF req.Date # <<>> /\ ~dateParses(req.Date[1])
                    THEN ErrDateFormat
                    ELSE NoError
       IN  procs' = [procs EXCEPT
                        ![p].err = err,
                        ![p].result = IF err = NoError
                                      THEN <<mergeUpdate(found.ret[1], req)>>
                                      ELSE <<>>,
                        ![p].pc = IF err = NoError THEN "Update" ELSE "done"]
    /\ UNCHANGED <<transactions, nextID, now, storeDown, last, input, cfg, assigned,
                   mutex>>
    /\ UNCHANGED memVars

\* s.repo.Update(&updatedTransaction) under the write lock, and the return
\* of the updated transaction
UpdateWrite(p) ==
    /\ procs[p].pc = "Update"
    /\ canLock(mutex)
    /\ LET updated == procs[p].result[1]
           found   == indexOf(transactions, updated.ID) # 0
       IN  /\ transactions' = repoUpdate(transactions, updated, now)
           /\ procs' = [procs EXCEPT
                           ![p].err = IF found THEN NoError ELSE ErrNotFound,
                           ![p].result =
                               IF found
                               THEN <<[updated EXCEPT !.UpdatedAt = now]>>
                               ELSE <<>>,
                           ![p].pc = "done"]
    /\ UNCHANGED <<nextID, now, storeDown, last, input, cfg, assigned, mutex>>
    /\ UNCHANGED memVars

NextUpdates ==
    \/ \E p \in Goroutines : CallUpdate(p)
    \/ \E p \in Goroutines : UpdateGetByID(p)
    \/ \E p \in Goroutines : UpdateWrite(p)

SpecUpdates == InitUpdate /\ [][NextUpdates]_vars

(***************************************************************************)
(* buildMonthlyReport as a function of its arguments.                      *)
(***************************************************************************)
InitBuild ==
    /\ transactions = <<>>
    /\ nextID = 1
    /\ now = MidFebruary
    /\ storeDown = FALSE
    /\ last = NoOutcome
    /\ input \in BuildInputs
    /\ cfg = Load("")
    /\ assigned = <<>>
    /\ slack = <<>>
    /\ held = <<>>
    /\ mutex = Unlocked
    /\ procs = [p \in Goroutines |-> Idle]

Build ==
    /\ last.op = "none"
    /\ \E month \in {6, 12} :
         last' = Outcome("buildMonthlyReport", 2024, month, now, NoError,
                         <<buildMonthlyReport(2024, month, input)>>, <<>>, <<>>)
    /\ UNCHANGED <<transactions, nextID, now, storeDown, input, cfg, assigned>>
    /\ UNCHANGED memVars
    /\ UNCHANGED concVars

NextBuild == Build

SpecBuild == InitBuild /\ [][NextBuild]_vars

(***************************************************************************)
(* Properties of buildMonthlyReport (checked under SpecBuild).             *)
(***************************************************************************)
Built == last.op = "buildMonthlyReport"

BuiltReport == last.report[1]

\* sum of Amount over txs
RECURSIVE SumAll(_)
SumAll(txs) == IF txs = <<>> THEN 0 ELSE Head(txs).Amount + SumAll(Tail(txs))

\* sum of Amount over the elements of txs that satisfy Keep
SumAmounts(txs, Keep(_)) == SumAll(SelectSeq(txs, Keep))

CountOf(txs, Keep(_)) == Cardinality({i \in 1 .. Len(txs) : Keep(txs[i])})

\* every element has a kind of the data model
KindsOfDataModel(txs) ==
    \A i \in 1 .. Len(txs) :
        txs[i].Type \in {TransactionTypeIncome, TransactionTypeExpense}

\* C1 (P3, aggregation correctness): for every sequence of transactions of the
\* data model (kind income or expense) and every currency c, totalIncome[c] is
\* the sum of the amounts of the income transactions in c and totalExpense[c]
\* the sum of the amounts of the expense transactions in c (a missing key
\* reads as zero).
C1_AggregationCorrect ==
    (Built /\ KindsOfDataModel(input)) =>
        \A c \in BuildCurrencies :
            /\ MapGet(BuiltReport.TotalIncome, c) =
                 SumAmounts(input, LAMBDA t : t.Type = "income" /\ t.Currency = c)
            /\ MapGet(BuiltReport.TotalExpense, c) =
                 SumAmounts(input, LAMBDA t : t.Type = "expense" /\ t.Currency = c)

\* a report over two incomes and an expense in one currency
C1_Witness ==
    /\ Built
    /\ KindsOfDataModel(input)
    /\ \E c \in BuildCurrencies :
         /\ CountOf(input, LAMBDA t : t.Type = "income" /\ t.Currency = c) = 2
         /\ CountOf(input, LAMBDA t : t.Type = "expense" /\ t.Currency = c) = 1
         /\ BuiltReport.TotalIncome[c] > BuiltReport.TotalExpense[c]

\* C2 (P4, balance law): the keys of balance are exactly the keys of totalIncome
\* together with those of totalExpense, and balance[c] = totalIncome[c] -
\* totalExpense[c] for each of them, a missing entry read as zero.
C2_BalanceLaw ==
    Built =>
        /\ DOMAIN BuiltReport.Balance =
             (DOMAIN BuiltReport.TotalIncome) \cup (DOMAIN BuiltReport.TotalExpense)
        /\ \A c \in DOMAIN BuiltReport.Balance :
             BuiltReport.Balance[c] =
                 MapGet(BuiltReport.TotalIncome, c) - MapGet(BuiltReport.TotalExpense, c)
        /\ \A c \in BuildCurrencies :
             (c \notin DOMAIN BuiltReport.TotalIncome
                /\ c \notin DOMAIN BuiltReport.TotalExpense)
             => c \notin DOMAIN BuiltReport.Balance

\* one currency with expenses only (a negative balance), another with income only
C2_Witness ==
    /\ Built
    /\ \E c, d \in BuildCurrencies :
         /\ c \notin DOMAIN BuiltReport.TotalIncome
         /\ c \in DOMAIN BuiltReport.TotalExpense
         /\ BuiltReport.Balance[c] < 0
         /\ d \in DOMAIN BuiltReport.TotalIncome
         /\ d \notin DOMAIN BuiltReport.TotalExpense
         /\ BuiltReport.Balance[d] > 0

\* C3 (P6, category totals): for every category k of the input,
\* categoryBreakdown[k].count is the number of transactions of category k and
\* categoryBreakdown[k].totals[c] the sum of their amounts in currency c; a
\* category of no transaction has no entry.
C3_CategoryTotals ==
    Built =>
        LET cb == BuiltReport.Summary.CategoryBreakdown
        IN  /\ DOMAIN cb = {input[i].Category : i \in 1 .. Len(input)}
            /\ \A k \in DOMAIN cb :
                 /\ cb[k].Count = CountOf(input, LAMBDA t : t.Category = k)
                 /\ \A c \in BuildCurrencies :
                      MapGet(cb[k].Totals, c) =
                          SumAmounts(input, LAMBDA t : t.Category = k /\ t.Currency = c)

\* a category met three times, twice in the same currency, while another
\* category has no entry
C3_Witness ==
    /\ Built
    /\ \E k \in BuildCategories, c, d \in BuildCurrencies :
         /\ c # d
         /\ k \in DOMAIN BuiltReport.Summary.CategoryBreakdown
         /\ BuiltReport.Summary.CategoryBreakdown[k].Count = 3
         /\ CountOf(input, LAMBDA t : t.Category = k /\ t.Currency = c) = 2
         /\ d \in DOMAIN BuiltReport.Summary.CategoryBreakdown[k].Totals
         /\ DOMAIN BuiltReport.Summary.CategoryBreakdown = {k}

\* C4 (P5, count consistency): whatever the kinds of its elements,
\* summary.transactionCount = len(report.transactions) = incomeCount + expenseCount.
C4_CountConsistency ==
    Built =>
        /\ BuiltReport.Summary.TransactionCount = Len(BuiltReport.Transactions)
        /\ BuiltReport.Summary.TransactionCount =
             BuiltReport.Summary.IncomeCount + BuiltReport.Summary.ExpenseCount

\* a report over an income, an expense and a transaction of another kind
C4_Witness ==
    /\ Built
    /\ \E i, j, k \in 1 .. Len(input) :
         /\ input[i].Type = "income"
         /\ input[j].Type = "expense"
         /\ input[k].Type \notin {"income", "expense"}
    /\ BuiltReport.Summary.TransactionCount = 3

(***************************************************************************)
(* Properties of GetMonthlyReport (checked under SpecRange).               *)
(***************************************************************************)
Reported == last.op = "GetMonthlyReport"

\* the year time.Now() showed when the request was made
CurrentYear == YearOf(last.at)

YearInRange == 1900 <= last.year /\ last.year <= CurrentYear + 10

MonthInRange == 1 <= last.month /\ last.month <= 12

\* C5 (P2, validation): a year below 1900 or above currentYear + 10 is rejected
\* with the invalid-year error, a month below 1 or above 12 (the year being in
\* range, see C28) with the invalid-month error, and no report is returned;
\* 1900, currentYear + 10, 1 and 12 pass both checks, and the request then
\* returns a report whenever the store answers.
C5_Validation ==
    Reported =>
        /\ ~YearInRange => (last.err = ErrInvalidYear /\ last.report = <<>>)
        /\ (YearInRange /\ ~MonthInRange) =>
               (last.err = ErrInvalidMonth /\ last.report = <<>>)
        /\ (YearInRange /\ MonthInRange) =>
               /\ last.err \notin {ErrInvalidYear, ErrInvalidMonth}
               /\ (last.rangeCalls # <<>> /\ last.rangeCalls[1].err = NoError)
                     => (last.err = NoError /\ last.report # <<>>)

\* the upper boundary of both checks accepted: December of currentYear + 10
C5_Witness ==
    /\ Reported
    /\ last.year = CurrentYear + 10
    /\ last.month = 12
    /\ last.err = NoError
    /\ last.report # <<>>

\* the calendar, stated apart from the arithmetic of time.Date
MonthLength(y, m) ==
    IF m = 2 THEN (IF y % 4 = 0 /\ (y % 100 # 0 \/ y % 400 = 0) THEN 29 ELSE 28)
    ELSE IF m \in {4, 6, 9, 11} THEN 30 ELSE 31

\* t is 00:00:00 UTC on day 1 of month m of year y
IsFirstInstantOf(t, y, m) ==
    YearOf(t) = y /\ MonthOf(t) = m /\ DayOf(t) = 1 /\ t.tick = 0

\* C6 (P1, range correctness): for every valid (year, month) the range passed to
\* the store starts at 00:00:00 UTC on day 1 of the month and ends exactly one
\* second before 00:00:00 UTC on day 1 of the following month (January of the
\* next year after December), which is 23:59:59 on the month's last day:
\* 2024-02-29T23:59:59Z for February 2024.
C6_RangeCorrect ==
    (Reported /\ last.rangeCalls # <<>>) =>
        LET call  == last.rangeCalls[1]
            nextY == IF last.month = 12 THEN last.year + 1 ELSE last.year
            nextM == IF last.month = 12 THEN 1 ELSE last.month + 1
            after == [day |-> call.end.day + 1, tick |-> 0]
        IN  /\ IsFirstInstantOf(call.start, last.year, last.month)
            /\ call.end.tick = TicksPerDay - TicksPerSecond
            /\ IsFirstInstantOf(after, nextY, nextM)
            /\ YearOf(call.end) = last.year
            /\ MonthOf(call.end) = last.month
            /\ DayOf(call.end) = MonthLength(last.year, last.month)

\* the range of February 2024, a leap year, ends on the 29th
C6_Witness ==
    /\ Reported
    /\ last.year = 2024
    /\ last.month = 2
    /\ last.rangeCalls # <<>>
    /\ DayOf(last.rangeCalls[1].end) = 29

\* C7: a request that fails the year or the month check issues no
\* GetByDateRange call.
C7_NoStoreCallOnRejection ==
    (Reported /\ (~YearInRange \/ ~MonthInRange)) =>
        /\ Len(last.rangeCalls) = 0
        /\ last.err \in {ErrInvalidYear, ErrInvalidMonth}

\* a rejected request made while the store would have answered
C7_Witness ==
    /\ Reported
    /\ YearInRange
    /\ last.month = 13
    /\ last.err = ErrInvalidMonth
    /\ ~storeDown
    /\ transactions # <<>>

\* C8: when the range query returns an error, GetMonthlyReport returns that
\* error and a nil report: no report is built.
C8_StoreErrorNoReport ==
    (Reported /\ last.rangeCalls # <<>> /\ last.rangeCalls[1].err # NoError) =>
        /\ last.err = last.rangeCalls[1].err
        /\ last.report = <<>>

\* a valid request that met a failing store
C8_Witness ==
    /\ Reported
    /\ YearInRange
    /\ MonthInRange
    /\ Len(last.rangeCalls) = 1
    /\ last.rangeCalls[1].err = ErrStore
    /\ last.err = ErrStore

(***************************************************************************)
(* Properties of the running server (checked under Spec).                  *)
(***************************************************************************)
\* t occurs in the sequence txs
Includes(txs, t) == \E i \in 1 .. Len(txs) : txs[i] = t

\* C9: every stored transaction is in the report of the UTC calendar month
\* that contains its date and in the report of no other month.
C9_OneMonthPerTransaction ==
    (Reported /\ last.err = NoError) =>
        \A i \in 1 .. Len(transactions) :
            Includes(last.report[1].Transactions, transactions[i])
                <=> (/\ YearOf(transactions[i].Date) = last.year
                     /\ MonthOf(transactions[i].Date) = last.month)

\* C10: GetByDateRange(start, end) returns exactly the stored transactions
\* whose date d satisfies start <= d <= end, whole second or not.
C10_ClosedInterval ==
    (Reported /\ last.rangeCalls # <<>> /\ last.rangeCalls[1].err = NoError) =>
        LET call == last.rangeCalls[1]
        IN  call.ret =
                SelectSeq(transactions,
                          LAMBDA t : /\ ~TimeBefore(t.Date, call.start)
                                     /\ ~TimeAfter(t.Date, call.end))

(***************************************************************************)
(* More properties of buildMonthlyReport (checked under SpecBuild).        *)
(***************************************************************************)
\* C11 (P7, empty input): for an empty transaction list the report has empty
\* totalIncome, totalExpense, balance and categoryBreakdown, an empty
\* transactions list and all three counts zero, while the month label and the
\* year are those of the request.
C11_EmptyInput ==
    (Built /\ input = <<>>) =>
        /\ DOMAIN BuiltReport.TotalIncome = {}
        /\ DOMAIN BuiltReport.TotalExpense = {}
        /\ DOMAIN BuiltReport.Balance = {}
        /\ DOMAIN BuiltReport.Summary.CategoryBreakdown = {}
        /\ Len(BuiltReport.Transactions) = 0
        /\ BuiltReport.Summary.TransactionCount = 0
        /\ BuiltReport.Summary.IncomeCount = 0
        /\ BuiltReport.Summary.ExpenseCount = 0
        /\ BuiltReport.Year = last.year
        /\ last.month = 6 => BuiltReport.Month = "June"
        /\ last.month = 12 => BuiltReport.Month = "December"

\* the report of December 2024 over no transaction
C11_Witness ==
    /\ Built
    /\ input = <<>>
    /\ last.month = 12
    /\ BuiltReport.Year = 2024
    /\ BuiltReport.Month = "December"

(***************************************************************************)
(* More properties of the running server (checked under Spec).             *)
(***************************************************************************)
\* the stored transactions dated in the calendar month of the instant t
DatedInMonthOf(store, t) ==
    SelectSeq(store, LAMBDA x : /\ YearOf(x.Date) = YearOf(t)
                                /\ MonthOf(x.Date) = MonthOf(t))

\* C12: GetCurrentMonthReport returns what GetMonthlyReport(currentYear,
\* currentMonth) returns on the store as it is at the call, nothing cached:
\* its transactions are the stored transactions dated in the current month,
\* and no transaction dated in another month.
C12_CurrentMonthReport ==
    (last.op = "GetCurrentMonthReport") =>
        LET direct == getMonthlyReport(YearOf(last.at), MonthOf(last.at),
                                       last.at, transactions, storeDown)
        IN  /\ last.err = direct.err
            /\ last.report = direct.report
            /\ last.err = NoError =>
                   last.report[1].Transactions = DatedInMonthOf(transactions, last.at)

(***************************************************************************)
(* Properties of the transaction service (checked under SpecService).      *)
(***************************************************************************)
\* C17: in every store state reached through CreateTransaction,
\* UpdateTransaction and DeleteTransaction, every stored transaction has
\* amount > 0 and kind expense or income.
C17_StoredAmountAndKind ==
    \A i \in 1 .. Len(transactions) :
        /\ transactions[i].Amount > 0
        /\ transactions[i].Type \in {TransactionTypeExpense, TransactionTypeIncome}

\* an update has just set a new amount in a store of two transactions
C17_Witness ==
    /\ last.op = "UpdateTransaction"
    /\ last.err = NoError
    /\ last.req[1].Amount = <<2>>
    /\ Len(transactions) = 2
    /\ last.tx[1].Amount = 2
    /\ \E i \in 1 .. 2 : transactions[i] = last.tx[1]

\* C20: a transaction created without a currency is stored with the
\* configured default currency, the value of DEFAULT_CURRENCY (ARS when it is
\* not set); one created with a currency keeps it.
C20_DefaultCurrency ==
    (last.op = "CreateTransaction" /\ last.err = NoError) =>
        transactions[Len(transactions)].Currency =
            IF last.req[1].Currency = "" THEN cfg.DefaultCurrency
            ELSE last.req[1].Currency

(***************************************************************************)
(* Properties of the in-memory repository (checked under SpecRepo).        *)
(***************************************************************************)
\* C15: after any sequence of Create, Update and Delete the stored
\* transactions have pairwise distinct positive IDs, and the k-th successful
\* Create assigned ID k whatever ID its argument carried.
C15_DistinctSequentialIDs ==
    /\ \A i \in 1 .. Len(transactions) : transactions[i].ID > 0
    /\ \A i, j \in 1 .. Len(transactions) :
           i # j => transactions[i].ID # transactions[j].ID
    /\ \A k \in 1 .. Len(assigned) : assigned[k] = k

\* the third Create, given a transaction that carries ID 1, after a Delete
C15_Witness ==
    /\ last.op = "Create"
    /\ last.req[1].ID = 1
    /\ last.tx[1].ID = 3
    /\ Len(assigned) = 3
    /\ Len(transactions) = 2

\* C18: Delete(id) of a stored ID removes exactly that transaction and keeps
\* the others, their fields and their order, after which GetByID(id) fails
\* with 'transaction not found'; Delete of an ID not stored returns
\* 'transaction not found' and leaves the list and nextID unchanged.
C18_DeleteExactlyOne ==
    [][(last'.op = "Delete") =>
          LET id == last'.req[1]
          IN  IF \E i \in 1 .. Len(transactions) : transactions[i].ID = id
              THEN /\ last'.err = NoError
                   /\ transactions' =
                          SelectSeq(transactions, LAMBDA t : t.ID # id)
                   /\ Len(transactions') = Len(transactions) - 1
                   /\ getByID(transactions', id).err = "transaction not found"
                   /\ getByID(transactions', id).ret = <<>>
              ELSE /\ last'.err = "transaction not found"
                   /\ transactions' = transactions
                   /\ nextID' = nextID]_vars

\* the first of two stored transactions has just been deleted
C18_Witness ==
    /\ last.op = "Delete"
    /\ last.err = NoError
    /\ last.req[1] = 1
    /\ Len(transactions) = 1
    /\ transactions[1].ID = 2

\* C19: GetByFilters(f) returns, in store order, exactly the stored
\* transactions with kind = f.Type when non-empty, category = f.Category when
\* non-empty, currency = f.Currency when non-empty, date >= f.FromDate when
\* set and date <= f.ToDate when set; all of them when no filter is set.
C19_FiltersConjunction ==
    (last.op = "GetByFilters") =>
        LET f == last.req[1]
            AtOrAfter(a, b) == a = b \/ TimeAfter(a, b)
            Wanted(t) ==
                /\ f.Type # "" => t.Type = f.Type
                /\ f.Category # "" => t.Category = f.Category
                /\ f.Currency # "" => t.Currency = f.Currency
                /\ f.FromDate # <<>> => AtOrAfter(t.Date, f.FromDate[1])
                /\ f.ToDate # <<>> => AtOrAfter(f.ToDate[1], t.Date)
        IN  /\ last.err = NoError
            /\ last.tx = SelectSeq(transactions, Wanted)
            /\ (/\ f.Type = "" /\ f.Category = "" /\ f.Currency = ""
                /\ f.FromDate = <<>> /\ f.ToDate = <<>>) => last.tx = transactions

\* a query with a kind and a closed date range that keeps one of two stored
\* transactions, the one dated on both ends of the range
C19_Witness ==
    /\ last.op = "GetByFilters"
    /\ last.req[1].Type = "income"
    /\ last.req[1].FromDate = <<FirstOfFebruary>>
    /\ last.req[1].ToDate = <<FirstOfFebruary>>
    /\ Len(transactions) = 2
    /\ Len(last.tx) = 1
    /\ last.tx[1].Date = FirstOfFebruary

(***************************************************************************)
(* Properties of returned reports (checked under SpecAlias).               *)
(***************************************************************************)
\* C13: a MonthlyReport, once returned, is never changed by a later Create,
\* Update or Delete on the store, Delete's in-place compaction included: its
\* transactions list, totals, balance and summary stay what they were.
C13_ReturnedReportImmutable ==
    [][\A k \in 1 .. Len(held) :
          ReportValue(held'[k], transactions', slack')
              = ReportValue(held[k], transactions, slack)]_vars

\* a report of two transactions is held, and the store it was taken from
\* has since been compacted by Delete and written to again
C13_Witness ==
    /\ Len(held) = 1
    /\ Len(held[1].Transactions.elems) = 2
    /\ held[1].Summary.TransactionCount = 2
    /\ slack # <<>>
    /\ Len(transactions) = 1
    /\ last.op = "Update"
    /\ transactions[1] # held[1].Transactions.elems[1]
    /\ transactions[1] # held[1].Transactions.elems[2]

(***************************************************************************)
(* Properties of the repository under concurrent calls (checked under      *)
(* SpecConc and SpecCreates).                                              *)
(***************************************************************************)
\* a goroutine has returned from this method
Returned(p, op) == procs[p].op = op /\ procs[p].pc = "done"

\* C14: whatever Create, Update and Delete calls run alongside it, the result
\* of GetByDateRange is the query evaluated on a value the store had at one
\* instant between the query's invocation and its return, so that every
\* transaction in it is one committed version, whole.
C14_RangeQueryLinearizable ==
    \A p \in Goroutines :
        Returned(p, "GetByDateRange") =>
            \E store \in procs[p].seen :
                procs[p].result =
                    SelectSeq(store,
                              LAMBDA t : inDateRange(t, procs[p].arg[1],
                                                     procs[p].arg[2]))

\* a query has returned a transaction that was not stored when the query
\* was invoked, the store having changed twice during the call
C14_Witness ==
    \E p \in Goroutines :
        /\ Returned(p, "GetByDateRange")
        /\ Cardinality(procs[p].seen) >= 3
        /\ Len(procs[p].result) = 1
        /\ \A i \in 1 .. Len(procs[p].start) :
               procs[p].start[i] # procs[p].result[1]

\* C16: when NumProcs Create calls run concurrently on one store, under
\* every interleaving all of them return without error, each caller sees a
\* non-zero ID, the IDs are pairwise distinct, and the store afterwards holds
\* exactly NumProcs transactions.  No interleaving leaves a call unable to
\* go on before all have returned.
C16_ConcurrentCreates ==
    /\ (\E p \in Goroutines : procs[p].pc # "done") => ENABLED NextCreates
    /\ (\A p \in Goroutines : Returned(p, "Create")) =>
           /\ \A p \in Goroutines :
                  /\ procs[p].err = NoError
                  /\ procs[p].result[1].ID # 0
           /\ \A p, q \in Goroutines :
                  p # q => procs[p].result[1].ID # procs[q].result[1].ID
           /\ Len(transactions) = NumProcs

\* all the goroutines entered Create on the empty store, hence before any
\* of them had appended, and all have returned
C16_Witness ==
    /\ \A p \in Goroutines : Returned(p, "Create") /\ procs[p].start = <<>>
    /\ Len(transactions) = NumProcs
    /\ \E p \in Goroutines : procs[p].arg.ID = NumProcs

(***************************************************************************)
(* More properties of GetMonthlyReport (checked under SpecRange).          *)
(***************************************************************************)
\* C21: every GetMonthlyReport request that passes validation issues exactly
\* one GetByDateRange call to the store, whether the call succeeds or fails:
\* no retry, no second query.
C21_ExactlyOneRangeQuery ==
    (Reported /\ YearInRange /\ MonthInRange) =>
        /\ Len(last.rangeCalls) = 1
        /\ last.rangeCalls[1].start = monthStart(last.year, last.month)
        /\ last.rangeCalls[1].end = monthEnd(last.year, last.month)

\* a valid request whose single query failed, on a store that holds data
C21_Witness ==
    /\ Reported
    /\ last.year = 2035
    /\ last.month = 12
    /\ storeDown
    /\ transactions # <<>>
    /\ Len(last.rangeCalls) = 1
    /\ last.err = ErrStore

(***************************************************************************)
(* Properties of buildMonthlyReport as a whole (checked under SpecBuild).  *)
(***************************************************************************)
\* C22: report.transactions is the sequence the range query returned, the
\* same elements in the same order with no field changed: the builder
\* neither sorts, drops, duplicates nor modifies transactions.
C22_TransactionsPreserved ==
    Built =>
        /\ Len(BuiltReport.Transactions) = Len(input)
        /\ \A i \in 1 .. Len(input) : BuiltReport.Transactions[i] = input[i]

\* a report over three transactions, no two alike, not in any sorted order
C22_Witness ==
    /\ Built
    /\ Len(input) = 3
    /\ input[1] # input[2]
    /\ input[2] # input[3]
    /\ input[1].Amount > input[2].Amount
    /\ input[2].Amount < input[3].Amount
    /\ BuiltReport.Transactions[3] = input[3]

\* the sum, over the categories in keys, of the breakdown's totals in currency c
RECURSIVE SumCategoryTotals(_, _, _)
SumCategoryTotals(keys, cb, c) ==
    IF keys = {} THEN 0
    ELSE LET k == CHOOSE x \in keys : TRUE
         IN  MapGet(cb[k].Totals, c) + SumCategoryTotals(keys \ {k}, cb, c)

\* the sum, over the categories in keys, of the breakdown's counts
RECURSIVE SumCategoryCounts(_, _)
SumCategoryCounts(keys, cb) ==
    IF keys = {} THEN 0
    ELSE LET k == CHOOSE x \in keys : TRUE
         IN  cb[k].Count + SumCategoryCounts(keys \ {k}, cb)

\* C26: category totals are kind-agnostic and exhaustive: for every currency
\* c the sum over all categories of categoryBreakdown[k].totals[c] equals
\* totalIncome[c] + totalExpense[c], missing entries read as zero, and the
\* sum over all categories of categoryBreakdown[k].count equals
\* summary.transactionCount.
C26_CategoriesExhaustive ==
    Built =>
        LET cb == BuiltReport.Summary.CategoryBreakdown
        IN  /\ \A c \in BuildCurrencies \cup {"EUR"} :
                   SumCategoryTotals(DOMAIN cb, cb, c)
                       = MapGet(BuiltReport.TotalIncome, c)
                             + MapGet(BuiltReport.TotalExpense, c)
            /\ SumCategoryCounts(DOMAIN cb, cb) = BuiltReport.Summary.TransactionCount

\* two categories, income and expense in the same currency across them
C26_Witness ==
    /\ Built
    /\ Cardinality(DOMAIN BuiltReport.Summary.CategoryBreakdown) = 2
    /\ MapGet(BuiltReport.TotalIncome, "USD") > 0
    /\ MapGet(BuiltReport.TotalExpense, "USD") > 0
    /\ \A k \in DOMAIN BuiltReport.Summary.CategoryBreakdown :
           MapGet(BuiltReport.Summary.CategoryBreakdown[k].Totals, "USD") > 0

\* the ways of reordering n elements
Reorderings(n) ==
    {f \in [1 .. n -> 1 .. n] : \A i, j \in 1 .. n : i # j => f[i] # f[j]}

\* C30: for integer amounts buildMonthlyReport does not depend on the order
\* of its input in anything but the transactions list: for inputs that are
\* permutations of each other totalIncome, totalExpense, balance, the three
\* counts and categoryBreakdown are identical.
C30_OrderInsensitive ==
    Built =>
        \A f \in Reorderings(Len(input)) :
            LET other == buildMonthlyReport(last.year, last.month,
                                            [i \in 1 .. Len(input) |-> input[f[i]]])
            IN  /\ other.TotalIncome = BuiltReport.TotalIncome
                /\ other.TotalExpense = BuiltReport.TotalExpense
                /\ other.Balance = BuiltReport.Balance
                /\ other.Summary = BuiltReport.Summary

\* an input whose reorderings differ from it: two currencies in one category
\* and a second category
C30_Witness ==
    /\ Built
    /\ Len(input) = 3
    /\ input[1].Category = input[2].Category
    /\ input[1].Currency # input[2].Currency
    /\ input[3].Category # input[1].Category
    /\ input[1].Type # input[3].Type
    /\ BuiltReport.Summary.TransactionCount = 3

(***************************************************************************)
(* The order of GetMonthlyReport's checks (checked under SpecRange).       *)
(***************************************************************************)
\* C28: when both arguments of GetMonthlyReport are out of range (year
\* outside [1900, currentYear+10] and month outside [1, 12]) the error
\* returned is the invalid-year error: the year is checked before the month
\* and one error is reported.
C28_YearCheckedFirst ==
    (Reported /\ ~YearInRange /\ ~MonthInRange) =>
        /\ last.err = "invalid year"
        /\ last.err # "month must be between 1 and 12"
        /\ last.report = <<>>

\* year eleven years ahead of the clock's and month 0
C28_Witness ==
    /\ Reported
    /\ last.year = CurrentYear + 11
    /\ last.month = 0
    /\ last.err = ErrInvalidYear

(***************************************************************************)
(* Failing CreateTransaction calls (checked under SpecCreate).             *)
(***************************************************************************)
\* the errors CreateTransaction returns before it reaches the store
CreateRejections ==
    {"type must be 'expense' or 'income'", "amount must be positive",
     "description is required", "category is required",
     "invalid date format, use YYYY-MM-DD"}

\* C23: whenever CreateTransaction returns an error (kind not
\* expense/income, amount <= 0, empty description, empty category, date not
\* YYYY-MM-DD, or a store error) it returns no transaction; for the
\* validation and date errors the store's Create is not called: the stored
\* list and the next ID to assign are unchanged.
C23_FailedCreateStoresNothing ==
    [][(last'.op = "CreateTransaction" /\ last'.err # NoError) =>
          /\ last'.tx = <<>>
          /\ last'.err \in CreateRejections \cup {ErrStore}
          /\ last'.err \in CreateRejections =>
                 /\ transactions' = transactions
                 /\ nextID' = nextID
                 /\ assigned' = assigned]_vars

\* a call rejected for its date after another was stored
C23_Witness ==
    /\ last.op = "CreateTransaction"
    /\ last.err = ErrDateFormat
    /\ last.tx = <<>>
    /\ Len(transactions) = 1
    /\ nextID = 2
    /\ ~storeDown

\* CreateTransaction has returned the store's error
C23_StoreErrorSeen ==
    /\ last.op = "CreateTransaction"
    /\ last.err = ErrStore
    /\ storeDown

(***************************************************************************)
(* UpdateTransaction's frame (checked under SpecUpdate).                   *)
(***************************************************************************)
\* the value a request gives a field: the one it provides, else the old one
Merged(provided, old) == IF provided # Unset THEN provided[1] ELSE old

C29_StoredTextNonEmpty ==
    \A i \in 1 .. Len(transactions) :
        /\ transactions[i].Currency # ""
        /\ transactions[i].Description # ""
        /\ transactions[i].Category # ""

(***************************************************************************)
(* Deleted IDs (checked under SpecRepo).                                   *)
(***************************************************************************)
\* the IDs of the transactions in store
StoredIDs(store) == {store[i].ID : i \in 1 .. Len(store)}

\* the IDs that were given out and are no longer stored: Delete has
\* succeeded on them
DeletedIDs == {assigned[k] : k \in 1 .. Len(assigned)} \ StoredIDs(transactions)

\* C27: once Delete(id) has succeeded no later store state holds a
\* transaction with that ID, whatever Create, Update and Delete calls follow:
\* the next ID to assign is greater than every ID assigned so far, and an
\* Update carrying a deleted ID fails with 'transaction not found' and
\* inserts nothing.
C27_DeletedIDsStayDeleted ==
    [][/\ \A id \in DeletedIDs : id \notin StoredIDs(transactions')
       /\ \A k \in 1 .. Len(assigned') : assigned'[k] < nextID'
       /\ (last'.op = "Update" /\ last'.req[1].ID \in DeletedIDs) =>
              /\ last'.err = "transaction not found"
              /\ transactions' = transactions]_vars

\* ID 1 was deleted, two more transactions were created, and an Update that
\* carried ID 1 has just failed
C27_Witness ==
    /\ last.op = "Update"
    /\ last.req[1].ID = 1
    /\ last.err = ErrNotFound
    /\ DeletedIDs = {1}
    /\ StoredIDs(transactions) = {2, 3}
    /\ nextID = 4

(***************************************************************************)
(* Concurrent UpdateTransaction calls (checked under SpecUpdates).         *)
(***************************************************************************)
\* goroutine p's UpdateTransaction call has returned without error
Succeeded(p) ==
    /\ procs[p].op = "UpdateTransaction"
    /\ procs[p].pc = "done"
    /\ procs[p].err = NoError

\* the stored transaction with the ID of p's call has the value of every
\* field that p's request set
Carries(p) ==
    LET req    == procs[p].arg.req
        stored == transactions[indexOf(transactions, procs[p].arg.ID)]
    IN  \A f \in setFields(req) : stored[f] = req[f][1]

\* C25: when two UpdateTransaction calls on the same ID that set different
\* fields have both returned success, and no other call was made, the stored
\* transaction carries the new values of both, however their GetByID and
\* Update steps interleaved.
C25_NoLostUpdate ==
    \A p, q \in Goroutines :
        (/\ p # q
         /\ Succeeded(p)
         /\ Succeeded(q)
         /\ procs[p].arg.ID = procs[q].arg.ID
         /\ setFields(procs[p].arg.req) # {}
         /\ setFields(procs[q].arg.req) # {}
         /\ setFields(procs[p].arg.req) \cap setFields(procs[q].arg.req) = {}
         /\ \A r \in Goroutines \ {p, q} : procs[r].pc = "idle")
        => Carries(p) /\ Carries(q)

\* two calls on the same ID that set different fields have both returned
\* success
C25_BothSucceeded ==
    \E p, q \in Goroutines :
        /\ p # q
        /\ Succeeded(p)
        /\ Succeeded(q)
        /\ procs[p].arg.ID = procs[q].arg.ID
        /\ setFields(procs[p].arg.req) = {"Amount"}
        /\ setFields(procs[q].arg.req) = {"Category"}
        /\ Carries(p)
        /\ Carries(q)

====
